---- MODULE Spec2Model ----
(***************************************************************************)
(* A model of algal_dashboard_community.py: the two loaders (load_data,    *)
(* load_community, both behind st.cache_data), and one pass of main():     *)
(* the sidebar (species and date selection with session persistence), the  *)
(* map filter with its record count, and the trends aggregation.           *)
(*                                                                         *)
(* Representation                                                          *)
(*   - a text (species name, column name) is a sequence of characters, so  *)
(*     that strip / collapse / append and the substring test are computed; *)
(*   - a date is a day number; NA stands for pandas' missing value (NaN,   *)
(*     NaT) in a numeric or date cell;                                     *)
(*   - a DataFrame is [cols, rows]: the set of its column labels and the   *)
(*     sequence of its rows; a cell of a column the frame does not have    *)
(*     reads as missing, and subscripting such a column is a KeyError.     *)
(***************************************************************************)
EXTENDS Integers, Sequences, FiniteSets, TLC

\* ------------------------------------------------------------- bounds
\* data dates are the days 1..MaxDate
MaxDate == 2
\* rows of a primary feed file
MaxRows == 2
\* species columns of a community sheet before 'Total plankton'
MaxSpeciesCols == 2
\* sample rows of a community sheet
MaxSamples == 2
\* characters of a generated species name
MaxNameLen == 3

\* ------------------------------------------------------------- values
\* pandas' missing value in a numeric or date cell (NaN / NaT)
NA == -999999
\* a cell whose text is neither a date nor a number
BadText == -888888
\* a units cell of a frame that has no value there
UnitNA == "nan"
\* the day numbers of the fallback bounds 2020-01-01 and 2025-12-31, on the
\* scale where the data dates are 1..MaxDate
DefaultMinDate == -1000
DefaultMaxDate == 1190
\* timedelta(days=14)
DefaultWindowDays == 14
\* the community multiplier and unit
ScaleFactor == 1000
CellsPerL == "cells/L"

NoFile == [absent |-> TRUE]

\* ------------------------------------------------------------- text
NBSP == "nbsp"
Whitespace == {" ", NBSP}
\* the characters in code point order
CharOrder ==
  <<" ", "*", "A", "D", "K", "L", "T", "a", "b", "c", "e", "g", "i", "k", "l",
    "n", "o", "p", "r", "s", "t", "u", "x", NBSP>>
Code(c) == CHOOSE i \in 1..Len(CharOrder) : CharOrder[i] = c

\* Python's str < str
RECURSIVE StrLess(_, _)
StrLess(a, b) ==
  IF b = <<>> THEN FALSE
  ELSE IF a = <<>> THEN TRUE
  ELSE IF Head(a) = Head(b) THEN StrLess(Tail(a), Tail(b))
  ELSE Code(Head(a)) < Code(Head(b))

\* sorted(S) for a set of texts
RECURSIVE Sorted(_)
Sorted(S) ==
  IF S = {} THEN <<>>
  ELSE LET m == CHOOSE x \in S : \A y \in S \ {x} : StrLess(x, y)
       IN <<m>> \o Sorted(S \ {m})

\* sub in s
Contains(s, sub) ==
  \E i \in 0..(Len(s) - Len(sub)) : SubSeq(s, i + 1, i + Len(sub)) = sub

\* str.strip()
RECURSIVE LStrip(_)
LStrip(s) ==
  IF s # <<>> /\ Head(s) \in Whitespace THEN LStrip(Tail(s)) ELSE s
RECURSIVE RStrip(_)
RStrip(s) ==
  IF s # <<>> /\ s[Len(s)] \in Whitespace
  THEN RStrip(SubSeq(s, 1, Len(s) - 1)) ELSE s
Strip(s) == RStrip(LStrip(s))

\* re.sub(r'\s+', ' ', s)
RECURSIVE CollapseSpaces(_)
CollapseSpaces(s) ==
  IF s = <<>> THEN <<>>
  ELSE IF Head(s) \in Whitespace
       THEN <<" ">> \o CollapseSpaces(LStrip(s))
       ELSE <<Head(s)>> \o CollapseSpaces(Tail(s))

\* s.replace('\xa0', ' ')
ReplaceNbsp(s) == [i \in 1..Len(s) |-> IF s[i] = NBSP THEN " " ELSE s[i]]

\* the Result_Name clean-up of load_data
NormalizeName(s) == ReplaceNbsp(CollapseSpaces(Strip(s)))

\* the provenance marker of load_community
Marker == <<" ", "*">>
AppendMarker(s) == s \o Marker

Karenia == <<"K", "a", "r", "e", "n", "i", "a">>
KareniaSubcount ==
  Karenia \o <<" ", "s", "p", "p", " ", "s", "u", "b", "c", "o", "u", "n", "t">>
KareniaSubcountStar == KareniaSubcount \o Marker
Alex == <<"A", "l", "e", "x">>
TotalPlankton ==
  <<"T", "o", "t", "a", "l", " ", "p", "l", "a", "n", "k", "t", "o", "n">>
ColLocation == <<"L", "o", "c", "a", "t", "i", "o", "n">>
ColLat == <<"L", "a", "t">>
ColLong == <<"L", "o", "n", "g">>
ColLatitude == <<"L", "a", "t", "i", "t", "u", "d", "e">>
ColLongitude == <<"L", "o", "n", "g", "i", "t", "u", "d", "e">>
ColDate == <<"D", "a", "t", "e">>

\* ------------------------------------------------------------- cells
\* pd.to_datetime(..., errors='coerce')
ToDatetime(x) == IF x = BadText THEN NA ELSE x
\* pd.to_numeric(..., errors='coerce')
ToNumeric(x) == IF x = BadText THEN NA ELSE x
NotNa(x) == x # NA
\* Series.between(a, b): inclusive on both sides, False on a missing side
Between(x, a, b) == NotNa(x) /\ NotNa(a) /\ NotNa(b) /\ a <= x /\ x <= b

Range(s) == {s[i] : i \in 1..Len(s)}
SetMin(S) == CHOOSE x \in S : \A y \in S : x <= y
SetMax(S) == CHOOSE x \in S : \A y \in S : y <= x
\* Series.min() / Series.max(): missing values are skipped
ColMin(vals) == LET S == {v \in vals : NotNa(v)} IN IF S = {} THEN NA ELSE SetMin(S)
ColMax(vals) == LET S == {v \in vals : NotNa(v)} IN IF S = {} THEN NA ELSE SetMax(S)

\* ------------------------------------------------------------- frames
\* pd.DataFrame(): no columns, no rows
EmptyFrame == [cols |-> {}, rows |-> <<>>]
\* DataFrame.empty
IsEmpty(f) == f.cols = {} \/ f.rows = <<>>
\* pd.concat([a, b], ignore_index=True): the union of the columns, a's rows
\* and then b's
Concat(a, b) == [cols |-> a.cols \cup b.cols, rows |-> a.rows \o b.rows]
\* f[mask]: the rows that satisfy P, in order
SelectRows(f, P(_)) == [cols |-> f.cols, rows |-> SelectSeq(f.rows, P)]
Column(f, c) == {f.rows[i][c] : i \in 1..Len(f.rows)}

PrimaryCols ==
  {"Site_Description", "Date_Sample_Collected", "Result_Name",
   "Result_Value_Numeric"}

\* pd.read_csv and the date and Result_Name clean-up (lines 19-34)
ReadPrimary(file) ==
  [cols |-> PrimaryCols \cup (IF file.has_units THEN {"Units"} ELSE {}),
   rows |-> [i \in 1..Len(file.rows) |->
     [Site_Description |-> file.rows[i].Site_Description,
      Date_Sample_Collected |-> ToDatetime(file.rows[i].Date_Sample_Collected),
      Result_Name |-> NormalizeName(file.rows[i].Result_Name),
      Result_Value_Numeric |-> file.rows[i].Result_Value_Numeric,
      Units |-> IF file.has_units THEN file.rows[i].Units ELSE UnitNA,
      Latitude |-> NA,
      Longitude |-> NA]]]

\* df.merge(coords_df, on="Site_Description", how="left") and the numeric
\* coercion of the coordinates (lines 40-43)
MergeCoords(f, coords) ==
  [cols |-> f.cols \cup {"Latitude", "Longitude"},
   rows |-> [i \in 1..Len(f.rows) |->
     LET site == f.rows[i].Site_Description
         hit == site \in DOMAIN coords
     IN [f.rows[i] EXCEPT
           !.Latitude = IF hit THEN ToNumeric(coords[site][1]) ELSE NA,
           !.Longitude = IF hit THEN ToNumeric(coords[site][2]) ELSE NA]]]

\* load_data, uncached: [err, df]
load_data(primary, coords) ==
  LET df == IF primary = NoFile THEN EmptyFrame ELSE ReadPrimary(primary)
  IN IF coords = NoFile THEN [err |-> "stop", df |-> EmptyFrame]
     ELSE IF "Site_Description" \notin df.cols
          THEN [err |-> "KeyError", df |-> EmptyFrame]
          ELSE [err |-> "ok", df |-> MergeCoords(df, coords.coords)]

\* --- the community sheet: [columns, rows], a row is the tuple of its cells
IndexOf(seq, x) == CHOOSE i \in 1..Len(seq) : seq[i] = x
\* df.columns.str.strip() and the Lat / Long renames (lines 56-62)
RenameColumn(c) ==
  IF c = ColLat THEN ColLatitude ELSE IF c = ColLong THEN ColLongitude ELSE c
CommunityColumns(sheet) ==
  [i \in 1..Len(sheet.columns) |-> RenameColumn(Strip(sheet.columns[i]))]
\* the slice without its end anchor: columns[date_idx + 1 : total_idx]
SpeciesColsWithoutTotal(columns) ==
  SubSeq(columns, IndexOf(columns, ColDate) + 1,
         IndexOf(columns, TotalPlankton) - 1)
\* everything after 'Date' up to and including 'Total plankton' (lines 69-71)
SpeciesCols(columns) ==
  SubSeq(columns, IndexOf(columns, ColDate) + 1, IndexOf(columns, TotalPlankton))

\* one long row: the melt of one cell, with lines 81-98 applied
LongRow(columns, row, col) ==
  LET cell(c) == row[IndexOf(columns, c)]
      v == cell(col)
  IN [Site_Description |-> cell(ColLocation),
      Date_Sample_Collected |-> ToDatetime(cell(ColDate)),
      Result_Name |-> AppendMarker(col),
      Result_Value_Numeric |-> IF NotNa(v) THEN v * ScaleFactor ELSE NA,
      Units |-> CellsPerL,
      Latitude |-> ToNumeric(cell(ColLatitude)),
      Longitude |-> ToNumeric(cell(ColLongitude))]

\* pd.melt: for each value column in order, every sample row in order
RECURSIVE Melt(_, _, _)
Melt(columns, rows, value_vars) ==
  IF value_vars = <<>> THEN <<>>
  ELSE [i \in 1..Len(rows) |-> LongRow(columns, rows[i], Head(value_vars))]
       \o Melt(columns, rows, Tail(value_vars))

LongCols == PrimaryCols \cup {"Units", "Latitude", "Longitude"}

\* load_community, uncached: [err, df]
load_community(sheet) ==
  IF sheet = NoFile THEN [err |-> "ok", df |-> EmptyFrame]
  ELSE LET columns == CommunityColumns(sheet)
           needed == {ColDate, TotalPlankton, ColLocation, ColLatitude, ColLongitude}
       IN IF ~(needed \subseteq Range(columns))
          THEN [err |-> "KeyError", df |-> EmptyFrame]
          ELSE [err |-> "ok",
                df |-> [cols |-> LongCols,
                        rows |-> Melt(columns, sheet.rows, SpeciesCols(columns))]]

\* ------------------------------------------------------------- sidebar
\* Python's min(a, b) and max(a, b); a comparison with a missing date is False
PyLess(a, b) == NotNa(a) /\ NotNa(b) /\ a < b
PyMin(a, b) == IF PyLess(b, a) THEN b ELSE a
PyMax(a, b) == IF PyLess(a, b) THEN b ELSE a

\* min_date, max_date (lines 288-299)
DateBounds(f) ==
  IF ~IsEmpty(f)
  THEN <<ColMin(Column(f, "Date_Sample_Collected")),
         ColMax(Column(f, "Date_Sample_Collected"))>>
  ELSE <<DefaultMinDate, DefaultMaxDate>>

\* the values of sorted(combined_df['Result_Name'].dropna().unique())
SpeciesOf(f) == Column(f, "Result_Name")

\* default_species (lines 304-317), selections as sets of names
KareniaDefaults(all_species) == {s \in all_species : Contains(s, Karenia)}
\* the previous selection kept whole, unavailable names included
FilteredPreviousKeepsAll(previous_selected, all_species, include_community) ==
  IF include_community /\ KareniaSubcountStar \in all_species
  THEN previous_selected \cup {KareniaSubcountStar}
  ELSE previous_selected
FilteredPrevious(previous_selected, all_species, include_community) ==
  LET kept == previous_selected \cap all_species
  IN IF include_community /\ KareniaSubcountStar \in all_species
     THEN kept \cup {KareniaSubcountStar}
     ELSE kept
DefaultSpecies(previous_selected, all_species, include_community) ==
  LET filtered_previous ==
        FilteredPrevious(previous_selected, all_species, include_community)
  IN IF filtered_previous # {} THEN filtered_previous
     ELSE KareniaDefaults(all_species)

\* the pair offered to st.date_input (lines 322-332)
DateOffer(previous_date_range, min_date, max_date) ==
  IF Len(previous_date_range) = 2
  THEN LET clamped_start ==
             PyMax(min_date, PyMin(previous_date_range[1], max_date))
           clamped_end ==
             PyMax(clamped_start, PyMin(max_date, previous_date_range[2]))
       IN <<clamped_start, clamped_end>>
  ELSE <<IF NotNa(max_date) THEN max_date - DefaultWindowDays ELSE NA, max_date>>

\* what a user can enter in the date input: the first date of a range half
\* entered, or an ordered pair, within [min_value, max_value]
PickableDates(min_date, max_date) ==
  IF NotNa(min_date) /\ NotNa(max_date)
  THEN {d \in (1..MaxDate) \cup {min_date, max_date} : min_date <= d /\ d <= max_date}
  ELSE {}
UserDateRanges(min_date, max_date) ==
  LET D == PickableDates(min_date, max_date)
  IN {<<d>> : d \in D \cap {min_date}} \cup {p \in D \X D : p[1] <= p[2]}

\* start_date, end_date (lines 334-337)
StartEnd(date_range, min_date, max_date) ==
  IF Len(date_range) = 2 THEN <<date_range[1], date_range[2]>>
  ELSE <<min_date, max_date>>

\* ------------------------------------------------------------- filter
\* the mask with a date range that is open at its end
MaskOpenEnd(row, species_selected, start_date, end_date) ==
  /\ row.Result_Name \in species_selected
  /\ Between(row.Date_Sample_Collected, start_date, end_date)
  /\ row.Date_Sample_Collected # end_date
  /\ NotNa(row.Result_Value_Numeric)
\* mask_main / mask_comm (lines 342-346, 351-355)
MaskCols == {"Result_Name", "Date_Sample_Collected", "Result_Value_Numeric"}
Mask(row, species_selected, start_date, end_date) ==
  /\ row.Result_Name \in species_selected
  /\ Between(row.Date_Sample_Collected, start_date, end_date)
  /\ NotNa(row.Result_Value_Numeric)
\* a mask that is one row out of line with the frame it selects from
FilterFrameMisaligned(f, species_selected, start_date, end_date) ==
  LET keep(i) ==
        /\ i < Len(f.rows)
        /\ f.rows[i + 1].Result_Name \in species_selected
        /\ Between(f.rows[i + 1].Date_Sample_Collected, start_date, end_date)
        /\ NotNa(f.rows[i + 1].Result_Value_Numeric)
      RECURSIVE pick(_)
      pick(i) ==
        IF i > Len(f.rows) THEN <<>>
        ELSE (IF keep(i) THEN <<f.rows[i]>> ELSE <<>>) \o pick(i + 1)
  IN [cols |-> f.cols, rows |-> pick(1)]
\* f[mask].copy()
FilterFrame(f, species_selected, start_date, end_date) ==
  LET keep(row) == Mask(row, species_selected, start_date, end_date)
  IN SelectRows(f, keep)

\* row.get('Units', 'cells/L') of the marker loops (lines 411, 426): the unit
\* an observation of frame f is labelled with
UnitShown(f, row) == IF "Units" \in f.cols THEN row.Units ELSE CellsPerL

\* ------------------------------------------------------------- trends
\* base_trends_df (lines 461-464)
BaseTrends(df, community_df, include_comm_in_trends, include_community) ==
  IF include_comm_in_trends /\ include_community /\ ~IsEmpty(community_df)
  THEN Concat(df, community_df)
  ELSE df

\* default_trend_species (line 468): the Karenia names, else the first three
DefaultTrendSpecies(all_species_trends) ==
  LET karenia == KareniaDefaults(Range(all_species_trends))
  IN IF karenia # {} THEN karenia
     ELSE {all_species_trends[i] : i \in 1..Len(all_species_trends) \cap 1..3}

\* DataFrame.sort_values('Date_Sample_Collected'): stable, missing dates last
DateBefore(a, b) == NotNa(a) /\ (~NotNa(b) \/ a < b)
RECURSIVE InsertByDate(_, _)
InsertByDate(sorted, row) ==
  IF sorted = <<>> THEN <<row>>
  ELSE IF DateBefore(row.Date_Sample_Collected, Head(sorted).Date_Sample_Collected)
       THEN <<row>> \o sorted
       ELSE <<Head(sorted)>> \o InsertByDate(Tail(sorted), row)
RECURSIVE SortByDate(_)
SortByDate(rows) ==
  IF rows = <<>> THEN <<>>
  ELSE InsertByDate(SortByDate(SubSeq(rows, 1, Len(rows) - 1)), rows[Len(rows)])

\* plot_df without the test of the value
PlotFrameKeepsMissing(base_trends_df, selected_trend_species, selected_site) ==
  LET keep(row) ==
        /\ row.Result_Name \in selected_trend_species
        /\ (selected_site # "All Sites" => row.Site_Description = selected_site)
      chosen == SelectRows(base_trends_df, keep)
  IN [cols |-> chosen.cols, rows |-> SortByDate(chosen.rows)]
\* plot_df (lines 486-495)
PlotFrame(base_trends_df, selected_trend_species, selected_site) ==
  LET keep(row) ==
        /\ row.Result_Name \in selected_trend_species
        /\ NotNa(row.Result_Value_Numeric)
        /\ (selected_site # "All Sites" => row.Site_Description = selected_site)
      chosen == SelectRows(base_trends_df, keep)
  IN [cols |-> chosen.cols, rows |-> SortByDate(chosen.rows)]

\* the arithmetic mean as a fraction in lowest terms
RECURSIVE Gcd(_, _)
Gcd(a, b) == IF b = 0 THEN a ELSE Gcd(b, a % b)
RECURSIVE SumSeq(_)
SumSeq(vals) == IF vals = <<>> THEN 0 ELSE Head(vals) + SumSeq(Tail(vals))
Mean(vals) ==
  LET total == SumSeq(vals)
      g == IF total = 0 THEN Len(vals) ELSE Gcd(total, Len(vals))
  IN [num |-> total \div g, den |-> Len(vals) \div g]
\* an empty cell of the pivot table
NaNCell == [num |-> NA, den |-> 1]

RECURSIVE SortedInts(_)
SortedInts(S) ==
  IF S = {} THEN <<>> ELSE <<SetMin(S)>> \o SortedInts(S \ {SetMin(S)})

\* the rows of a (date, species) group; a row with a missing date is in none
GroupValues(rows, date, species) ==
  LET in_group(row) ==
        row.Date_Sample_Collected = date /\ row.Result_Name = species
      members == SelectSeq(rows, in_group)
  IN [i \in 1..Len(members) |-> members[i].Result_Value_Numeric]

\* pivot_table(index=date, columns=species, aggfunc='mean') (lines 499-504):
\* the sorted index, the sorted columns and the cell of each pair
PivotIndex(rows) ==
  SortedInts({rows[i].Date_Sample_Collected : i \in 1..Len(rows)} \ {NA})
PivotColumns(rows) ==
  Sorted({rows[i].Result_Name :
            i \in {j \in 1..Len(rows) : NotNa(rows[j].Date_Sample_Collected)}})
PivotCell(rows, date, species) ==
  LET vals == GroupValues(rows, date, species)
  IN IF vals = <<>> THEN NaNCell ELSE Mean(vals)

\* a melt that goes date after date, each with every column
RECURSIVE MeltTrendDateMajor(_, _, _)
MeltTrendDateMajor(rows, index, columns) ==
  IF index = <<>> THEN <<>>
  ELSE [i \in 1..Len(columns) |->
          [Date_Sample_Collected |-> Head(index),
           Species |-> columns[i],
           Cell_Count |-> PivotCell(rows, Head(index), columns[i])]]
       \o MeltTrendDateMajor(rows, Tail(index), columns)
\* trend_df.melt(id_vars=date) (lines 507-512): column after column, each
\* with every row of the index
RECURSIVE MeltTrend(_, _, _)
MeltTrend(rows, index, columns) ==
  IF columns = <<>> THEN <<>>
  ELSE [i \in 1..Len(index) |->
          [Date_Sample_Collected |-> index[i],
           Species |-> Head(columns),
           Cell_Count |-> PivotCell(rows, index[i], Head(columns))]]
       \o MeltTrend(rows, index, Tail(columns))

\* trend_melted, for a plot_df that is not empty
TrendMelted(plot_df) ==
  MeltTrend(plot_df.rows, PivotIndex(plot_df.rows), PivotColumns(plot_df.rows))

\* ------------------------------------------------------------- state
VARIABLES
  primary_file,          \* the primary feed on disk, or NoFile
  community_file,        \* the community sheet on disk, or NoFile
  coords_file,           \* site_coordinates.csv on disk, or NoFile
  cache_load_data,       \* st.cache_data's entry for load_data(file_path, coords_csv)
  cache_load_community,  \* st.cache_data's entry for load_community()
  session_state,         \* st.session_state: species_selected, date_range
  widgets,               \* which input widgets the session has already shown
  pc,                    \* where the script pass is: idle, filtered, done, failed
  run                    \* the locals of main() in the pass under way

vars ==
  <<primary_file, community_file, coords_file, cache_load_data,
    cache_load_community, session_state, widgets, pc, run>>

NotCached == [cached |-> FALSE, value |-> EmptyFrame]
Cached(f) == [cached |-> TRUE, value |-> f]

\* the locals before the pass has set them
NoRun ==
  [err |-> "ok", data_hit |-> FALSE, community_hit |-> FALSE,
   df |-> EmptyFrame, community_df |-> EmptyFrame,
   include_community |-> FALSE, combined_df |-> EmptyFrame,
   min_date |-> NA, max_date |-> NA, all_species |-> <<>>,
   default_species |-> {}, species_selected |-> {},
   date_offer |-> <<>>, date_range |-> <<>>,
   start_date |-> NA, end_date |-> NA,
   sub_df |-> EmptyFrame, comm_sub_df |-> EmptyFrame, filtered_records |-> 0,
   include_comm_in_trends |-> FALSE, selected_trend_species |-> {},
   selected_site |-> "All Sites",
   plot_df |-> EmptyFrame, charted |-> FALSE, trend_melted |-> <<>>]

\* a cached function: the stored value on a hit, else the call; the cache key
\* is the argument list, which main() never varies
CachedLoadData ==
  IF cache_load_data.cached
  THEN [err |-> "ok", df |-> cache_load_data.value, hit |-> TRUE]
  ELSE [err |-> load_data(primary_file, coords_file).err,
        df |-> load_data(primary_file, coords_file).df, hit |-> FALSE]
CachedLoadCommunity ==
  IF cache_load_community.cached
  THEN [err |-> "ok", df |-> cache_load_community.value, hit |-> TRUE]
  ELSE [err |-> load_community(community_file).err,
        df |-> load_community(community_file).df, hit |-> FALSE]

\* what st.multiselect returns: its default when first shown, afterwards what
\* the user has left selected among the options
SpeciesChoices(all_species, default_species) ==
  IF widgets.species THEN SUBSET all_species ELSE {default_species}

\* what st.date_input returns: the offered pair when first shown, afterwards
\* the offered pair or what the user entered.  It raises when the offered
\* pair does not lie within [min_value, max_value].  With no valid date in the
\* data the bounds are NaT and the call may raise.
OfferWithinBounds(date_offer, min_date, max_date) ==
  /\ min_date <= date_offer[1]
  /\ date_offer[Len(date_offer)] <= max_date
DateInputResults(date_offer, min_date, max_date) ==
  IF ~NotNa(min_date)
  THEN {[raised |-> r, value |-> date_offer] : r \in BOOLEAN}
  ELSE IF ~OfferWithinBounds(date_offer, min_date, max_date)
  THEN {[raised |-> TRUE, value |-> date_offer]}
  ELSE {[raised |-> FALSE, value |-> v] :
          v \in {date_offer} \cup
                (IF widgets.date THEN UserDateRanges(min_date, max_date) ELSE {})}

\* lines 242-360 of main(): the loads, the sidebar, the filter and the count
Rerun ==
  /\ pc = "idle"
  /\ UNCHANGED <<primary_file, community_file, coords_file>>
  /\ LET data == CachedLoadData
         comm == CachedLoadCommunity
         loaded == [NoRun EXCEPT !.data_hit = data.hit, !.df = data.df]
     IN IF data.err # "ok"
        THEN /\ run' = [NoRun EXCEPT !.err = data.err]
             /\ pc' = "failed"
             /\ UNCHANGED <<cache_load_data, cache_load_community,
                            session_state, widgets>>
        ELSE IF comm.err # "ok"
        THEN /\ run' = [loaded EXCEPT !.err = comm.err]
             /\ pc' = "failed"
             /\ cache_load_data' = Cached(data.df)
             /\ UNCHANGED <<cache_load_community, session_state, widgets>>
        ELSE
          /\ cache_load_data' = Cached(data.df)
          /\ cache_load_community' = Cached(comm.df)
          /\ \E include_community \in BOOLEAN :
             LET df == data.df
                 community_df == comm.df
                 combined_df ==
                   IF include_community THEN Concat(df, community_df) ELSE df
                 min_date == DateBounds(combined_df)[1]
                 max_date == DateBounds(combined_df)[2]
                 all_species == SpeciesOf(combined_df)
                 default_species ==
                   DefaultSpecies(session_state.species_selected, all_species,
                                  include_community)
                 date_offer ==
                   DateOffer(session_state.date_range, min_date, max_date)
                 sidebar ==
                   [loaded EXCEPT
                      !.community_hit = comm.hit,
                      !.community_df = community_df,
                      !.include_community = include_community,
                      !.combined_df = combined_df,
                      !.min_date = min_date, !.max_date = max_date,
                      !.all_species = Sorted(all_species),
                      !.default_species = default_species,
                      !.date_offer = date_offer]
             IN IF "Result_Name" \notin combined_df.cols
                THEN /\ run' = [sidebar EXCEPT !.err = "KeyError"]
                     /\ pc' = "failed"
                     /\ UNCHANGED <<session_state, widgets>>
                ELSE
                  \E species_selected \in SpeciesChoices(all_species, default_species) :
                  \E shown \in DateInputResults(date_offer, min_date, max_date) :
                    LET date_range == shown.value
                        start_date == StartEnd(date_range, min_date, max_date)[1]
                        end_date == StartEnd(date_range, min_date, max_date)[2]
                        sub_df ==
                          FilterFrame(df, species_selected, start_date, end_date)
                        comm_sub_df ==
                          IF include_community
                          THEN FilterFrame(community_df, species_selected,
                                           start_date, end_date)
                          ELSE EmptyFrame
                        chosen == [sidebar EXCEPT !.species_selected = species_selected]
                        dated ==
                          [chosen EXCEPT !.date_range = date_range,
                                         !.start_date = start_date,
                                         !.end_date = end_date]
                    IN IF shown.raised
                       THEN /\ run' = [chosen EXCEPT !.err = "Exception"]
                            /\ pc' = "failed"
                            /\ session_state' =
                                 [session_state EXCEPT
                                    !.species_selected = species_selected]
                            /\ widgets' = [widgets EXCEPT !.species = TRUE]
                       ELSE
                         /\ session_state' =
                              [species_selected |-> species_selected,
                               date_range |-> date_range]
                         /\ widgets' = [widgets EXCEPT !.species = TRUE,
                                                       !.date = TRUE]
                         /\ IF ~(MaskCols \subseteq df.cols)
                            THEN /\ run' = [dated EXCEPT !.err = "KeyError"]
                                 /\ pc' = "failed"
                            ELSE IF include_community
                                    /\ ~(MaskCols \subseteq community_df.cols)
                            THEN /\ run' = [dated EXCEPT !.err = "KeyError",
                                                         !.sub_df = sub_df]
                                 /\ pc' = "failed"
                            ELSE /\ run' =
                                      [dated EXCEPT
                                         !.sub_df = sub_df,
                                         !.comm_sub_df = comm_sub_df,
                                         !.filtered_records =
                                            Len(sub_df.rows) + Len(comm_sub_df.rows)]
                                 /\ pc' = "filtered"

\* lines 454-539 of main(): the trends section
Trends ==
  /\ pc = "filtered"
  /\ UNCHANGED <<primary_file, community_file, coords_file, cache_load_data,
                 cache_load_community, session_state>>
  /\ pc' = "done"
  /\ IF IsEmpty(run.df)
     THEN UNCHANGED <<run, widgets>>
     ELSE
       /\ widgets' = [widgets EXCEPT !.trends = TRUE]
       /\ \E include_comm_in_trends \in
               (IF widgets.trends THEN BOOLEAN ELSE {run.include_community}) :
          LET base_trends_df ==
                BaseTrends(run.df, run.community_df, include_comm_in_trends,
                           run.include_community)
              all_species_trends == Sorted(SpeciesOf(base_trends_df))
              all_sites == Column(base_trends_df, "Site_Description")
          IN \E selected_trend_species \in
                  (IF widgets.trends THEN SUBSET Range(all_species_trends)
                   ELSE {DefaultTrendSpecies(all_species_trends)}) :
             \E selected_site \in
                  (IF widgets.trends THEN {"All Sites"} \cup all_sites
                   ELSE {"All Sites"}) :
               LET plot_df ==
                     PlotFrame(base_trends_df, selected_trend_species, selected_site)
               IN run' = [run EXCEPT
                            !.include_comm_in_trends = include_comm_in_trends,
                            !.selected_trend_species = selected_trend_species,
                            !.selected_site = selected_site,
                            !.plot_df = plot_df,
                            !.charted = ~IsEmpty(plot_df),
                            !.trend_melted =
                               IF IsEmpty(plot_df) THEN <<>>
                               ELSE TrendMelted(plot_df)]

\* the script pass ends (normally, by st.stop or by an exception): its locals
\* are gone, the cache, the session state and the widgets stay
Finish ==
  /\ pc \in {"done", "failed"}
  /\ pc' = "idle"
  /\ run' = NoRun
  /\ UNCHANGED <<primary_file, community_file, coords_file, cache_load_data,
                 cache_load_community, session_state, widgets>>

\* ------------------------------------------------------------- inputs
SeqsUpTo(S, n) == UNION {[1..k -> S] : k \in 0..n}

\* a session starts: nothing cached, nothing selected, nothing shown
InitWith(primaries, communities, coordinates) ==
  /\ primary_file \in primaries
  /\ community_file \in communities
  /\ coords_file \in coordinates
  /\ cache_load_data = NotCached
  /\ cache_load_community = NotCached
  /\ session_state = [species_selected |-> {}, date_range |-> <<>>]
  /\ widgets = [species |-> FALSE, date |-> FALSE, trends |-> FALSE]
  /\ pc = "idle"
  /\ run = NoRun

\* a date a default window after the last of the dates 1..MaxDate: a feed
\* with an observation of that date and an earlier one spans the window
LateDate == MaxDate + DefaultWindowDays

Sites == {"A", "B"}
\* site_coordinates.csv: site A is registered, site B is not
Registry == [coords |-> [site \in {"A"} |-> <<-35, 138>>]]

PrimaryFile(rows) == [has_units |-> TRUE, rows |-> rows]
PrimaryRow(site, date, name, value, units) ==
  [Site_Description |-> site, Date_Sample_Collected |-> date,
   Result_Name |-> name, Result_Value_Numeric |-> value, Units |-> units]

\* a community sheet: Location, Lat, Long, Date, the species columns,
\* 'Total plankton'
Sheet(species, rows) ==
  [columns |-> <<ColLocation, ColLat, ColLong, ColDate>> \o species
                 \o <<TotalPlankton>>,
   rows |-> rows]
SampleRow(site, date, counts, total) ==
  <<site, -34, 137, date>> \o counts \o <<total>>

\* ---- the session specification: one user session over fixed files, any
\* number of script passes.  The primary feed has at most one observation,
\* which may have a date that does not parse, either species, a missing
\* value, and may have a late observation of its species after it; the
\* community sheet has the Karenia subcount and at most one sample.
SessionRows ==
  {PrimaryRow("A", date, name, 100, CellsPerL) :
     date \in 1..MaxDate, name \in {Karenia, Alex}} \cup
  {PrimaryRow("A", BadText, Karenia, 100, CellsPerL),
   PrimaryRow("A", 1, Karenia, NA, CellsPerL)}
LateRow(name) == PrimaryRow("A", LateDate, name, 100, CellsPerL)
SessionPrimaries ==
  {NoFile, PrimaryFile(<<>>)} \cup {PrimaryFile(<<row>>) : row \in SessionRows}
    \cup {PrimaryFile(<<row, LateRow(row.Result_Name)>>) : row \in SessionRows}
SessionSheets ==
  {NoFile, Sheet(<<KareniaSubcount>>, <<>>)} \cup
  {Sheet(<<KareniaSubcount>>, <<SampleRow("B", 1, <<NA>>, 5)>>)}

Init ==
  \/ InitWith(SessionPrimaries, SessionSheets, {Registry})
  \/ InitWith(SessionPrimaries, {NoFile}, {NoFile})
Next == Rerun \/ Trends \/ Finish
Spec == Init /\ [][Next]_vars

\* ---- the first pass of a session (default selections), over wider feeds
NextPass == Rerun \/ Trends

\* texts of 1..n characters
Texts(alphabet, n) == UNION {[1..k -> alphabet] : k \in 1..n}
Dino == <<"D", "i", "n", "o">>
SpeciesPool == <<KareniaSubcount, Alex, Dino, Karenia>>
Padded(columns) == [i \in 1..Len(columns) |-> columns[i] \o <<" ">>]

\* feeds that differ in their species names: any short text in the primary
\* feed, any short text as the community sheet's species column (sampled a
\* default window later)
NamedPrimaries ==
  {PrimaryFile(<<PrimaryRow("A", 1, name, 100, CellsPerL)>>) :
     name \in Texts({"a", " ", "*", NBSP}, MaxNameLen)}
NamedSheets ==
  {Sheet(<<name>>, <<SampleRow("B", LateDate, <<5>>, 5)>>) :
     name \in Texts({"a", " ", "*"}, MaxNameLen)}
\* primary feeds that differ in their Units column: absent, or with the text
\* of each row
UnitPrimaries ==
  {[has_units |-> FALSE,
    rows |-> <<PrimaryRow("A", 1, Alex, 100, UnitNA),
               PrimaryRow("A", LateDate, Alex, 100, UnitNA)>>]} \cup
  {PrimaryFile(<<PrimaryRow("A", 1, Alex, 100, units),
                 PrimaryRow("A", LateDate, Alex, 100, units)>>) :
     units \in {CellsPerL, "cells/mL"}}
\* community sheets that differ in shape: 0..MaxSpeciesCols species columns
\* before 'Total plankton', up to MaxSamples samples, column names with or
\* without trailing blanks
SampleRows(n) ==
  {SampleRow(site, date, [i \in 1..n |-> 5], NA) :
     site \in Sites, date \in (1..MaxDate) \cup {BadText}}
PaddedSheet(sheet) == [sheet EXCEPT !.columns = Padded(sheet.columns)]
ShapedSheetsOf(n) ==
  UNION {{Sheet(SubSeq(SpeciesPool, 1, n), rows),
          PaddedSheet(Sheet(SubSeq(SpeciesPool, 1, n), rows))} :
           rows \in SeqsUpTo(SampleRows(n), MaxSamples)}
ShapedSheets == UNION {ShapedSheetsOf(n) : n \in 0..MaxSpeciesCols}

InitNormalize ==
  \/ InitWith(NamedPrimaries, NamedSheets, {Registry})
  \/ InitWith(UnitPrimaries, SessionSheets, {Registry})
SpecNormalize == InitNormalize /\ [][NextPass]_vars

InitReshape == InitWith({PrimaryFile(<<>>)}, ShapedSheets, {Registry})
SpecReshape == InitReshape /\ [][NextPass]_vars

\* feeds for the trends: up to MaxRows observations over two sites, the data
\* dates (or a date that does not parse), two species, and values that differ
\* between the sites (or are missing), and a late observation after them
TrendRows ==
  {PrimaryRow(sv[1], date, name, sv[2], CellsPerL) :
     sv \in {<<"A", 100>>, <<"B", 300>>, <<"B", NA>>},
     date \in (1..MaxDate) \cup {BadText}, name \in {Alex, Dino}}
TrendPrimaries ==
  {PrimaryFile(rows \o <<LateRow(Dino)>>) : rows \in SeqsUpTo(TrendRows, MaxRows)}
InitTrends ==
  InitWith(TrendPrimaries,
           {NoFile, Sheet(<<Alex>>, <<SampleRow("B", 1, <<5>>, 5)>>)}, {Registry})
SpecTrends == InitTrends /\ [][NextPass]_vars

\* ---- sessions over files that change on disk between sessions
ReplacePrimary ==
  /\ pc = "idle"
  /\ primary_file' \in SessionPrimaries \ {primary_file}
  /\ UNCHANGED <<community_file, coords_file, cache_load_data,
                 cache_load_community, session_state, widgets, pc, run>>
ReplaceCommunity ==
  /\ pc = "idle"
  /\ community_file' \in SessionSheets \ {community_file}
  /\ UNCHANGED <<primary_file, coords_file, cache_load_data,
                 cache_load_community, session_state, widgets, pc, run>>
\* site A moves
Registry2 == [coords |-> [site \in {"A"} |-> <<-36, 139>>]]
ReplaceCoords ==
  /\ pc = "idle"
  /\ coords_file' \in {NoFile, Registry, Registry2} \ {coords_file}
  /\ UNCHANGED <<primary_file, community_file, cache_load_data,
                 cache_load_community, session_state, widgets, pc, run>>
\* the browser session ends and a new one starts: the session state and the
\* widgets are new, st.cache_data's entries belong to the server and stay
NewSession ==
  /\ pc \in {"done", "failed"}
  /\ pc' = "idle"
  /\ run' = NoRun
  /\ session_state' = [species_selected |-> {}, date_range |-> <<>>]
  /\ widgets' = [species |-> FALSE, date |-> FALSE, trends |-> FALSE]
  /\ UNCHANGED <<primary_file, community_file, coords_file, cache_load_data,
                 cache_load_community>>
NextCache ==
  Rerun \/ Trends \/ NewSession \/ ReplacePrimary \/ ReplaceCommunity
    \/ ReplaceCoords
SpecCache == Init /\ [][NextCache]_vars

\* ------------------------------------------------------------- claims
Passed == pc \in {"filtered", "done"}

\* ---- C1
\* the records the filter is to return: species selected, date within
\* [d0, d1] with both ends included (a missing date is within nothing), value
\* present
Matching(rows, species, d0, d1) ==
  LET wanted(row) ==
        /\ row.Result_Name \in species
        /\ row.Date_Sample_Collected # NA
        /\ d0 <= row.Date_Sample_Collected
        /\ row.Date_Sample_Collected <= d1
        /\ row.Result_Value_Numeric # NA
  IN SelectSeq(rows, wanted)

\* C1: for any feeds, species selection and date interval [start_date,
\* end_date], the primary subset is exactly the primary records whose species
\* is selected, whose date lies in the interval (ends included) and whose
\* value is present; so is the community subset when community data is
\* included; and the record count is the number of these records.
C1_FilterIsExact ==
  (Passed /\ NotNa(run.start_date) /\ NotNa(run.end_date)) =>
    LET main == Matching(run.df.rows, run.species_selected,
                         run.start_date, run.end_date)
        comm == Matching(run.community_df.rows, run.species_selected,
                         run.start_date, run.end_date)
    IN /\ run.sub_df.rows = main
       /\ run.include_community => run.comm_sub_df.rows = comm
       /\ run.filtered_records =
            Len(main) + (IF run.include_community THEN Len(comm) ELSE 0)

\* a pass with community data included in which a community record is kept
\* and another is not, and the primary record, of a selected species and with
\* a value, is left out because its date did not parse
C1_Witness ==
  /\ pc = "filtered"
  /\ run.include_community
  /\ run.comm_sub_df.rows # <<>>
  /\ Len(run.comm_sub_df.rows) < Len(run.community_df.rows)
  /\ run.sub_df.rows = <<>>
  /\ \E i \in 1..Len(run.df.rows) :
       /\ run.df.rows[i].Date_Sample_Collected = NA
       /\ run.df.rows[i].Result_Name \in run.species_selected
       /\ run.df.rows[i].Result_Value_Numeric # NA

\* ---- C2
\* C2: with the coordinate file present and a feed file absent, the load of
\* that feed gives an empty observation set and the pass runs to its end
\* without a fatal error.
C2_MissingFeedIsNotFatal ==
  (pc # "idle" /\ coords_file # NoFile
     /\ (primary_file = NoFile \/ community_file = NoFile)) =>
    /\ run.err \notin {"KeyError", "stop"}
    /\ primary_file = NoFile => run.df.rows = <<>>
    /\ community_file = NoFile => run.community_df.rows = <<>>

\* ---- C3
\* C3: in the combined observation set no community record has the species
\* name of a primary record.
C3_ProvenanceNamesDistinct ==
  (Passed /\ run.include_community) =>
    \A i \in 1..Len(run.df.rows) :
      \A j \in (Len(run.df.rows) + 1)..Len(run.combined_df.rows) :
        run.combined_df.rows[i].Result_Name # run.combined_df.rows[j].Result_Name

\* ---- C4
\* C4: every observation of the unified view, primary or community, has the
\* unit "cells/L".
C4_UnitIsCellsPerL ==
  Passed =>
    /\ \A row \in Range(run.df.rows) : UnitShown(run.df, row) = "cells/L"
    /\ \A row \in Range(run.community_df.rows) :
         UnitShown(run.community_df, row) = "cells/L"

\* ---- C5
\* the sheet's column labels as read (blanks trimmed), and a sample's cell
Labels(sheet) == [i \in 1..Len(sheet.columns) |-> Strip(sheet.columns[i])]
SampleCell(sheet, r, label) == sheet.rows[r][IndexOf(Labels(sheet), label)]
\* the number of columns strictly between 'Date' and 'Total plankton'
SpeciesBetween(sheet) ==
  IndexOf(Labels(sheet), TotalPlankton) - IndexOf(Labels(sheet), ColDate) - 1
\* long row k of S samples comes from sample ((k - 1) mod S) + 1
CarriesSample(sheet, long, r) ==
  /\ long.Site_Description = SampleCell(sheet, r, ColLocation)
  /\ long.Date_Sample_Collected = ToDatetime(SampleCell(sheet, r, ColDate))
  /\ long.Latitude = ToNumeric(SampleCell(sheet, r, ColLat))
  /\ long.Longitude = ToNumeric(SampleCell(sheet, r, ColLong))
LongRowsCarrySamples(sheet, long_rows) ==
  \A k \in 1..Len(long_rows) :
    CarriesSample(sheet, long_rows[k], ((k - 1) % Len(sheet.rows)) + 1)

\* C5, as amended: a sheet with N species columns before its 'Total plankton'
\* column reshapes into N + 1 long rows per sample (one per species column
\* and one for 'Total plankton'), each with the site, date, latitude and
\* longitude of its sample.
C5_ReshapeCountsTotal ==
  (pc # "idle" /\ run.err = "ok" /\ community_file # NoFile) =>
    /\ Len(run.community_df.rows) =
         (SpeciesBetween(community_file) + 1) * Len(community_file.rows)
    /\ LongRowsCarrySamples(community_file, run.community_df.rows)

\* C5, as stated: N long rows per sample.
C5_ReshapeAsStated ==
  (pc # "idle" /\ run.err = "ok" /\ community_file # NoFile) =>
    /\ Len(run.community_df.rows) =
         SpeciesBetween(community_file) * Len(community_file.rows)
    /\ LongRowsCarrySamples(community_file, run.community_df.rows)

\* two samples from different sites, two species columns, reshaped
C5_Witness ==
  /\ pc # "idle" /\ run.err = "ok" /\ community_file # NoFile
  /\ SpeciesBetween(community_file) = 2
  /\ Len(community_file.rows) = 2
  /\ community_file.rows[1][1] # community_file.rows[2][1]
  /\ Len(run.community_df.rows) = 6

\* ---- C6
\* the (date, species) pairs that occur in the rows, a missing date aside
PairsOf(rows) ==
  {<<rows[i].Date_Sample_Collected, rows[i].Result_Name>> :
     i \in {j \in 1..Len(rows) : rows[j].Date_Sample_Collected # NA}}
GroupOf(rows, pair) ==
  {i \in 1..Len(rows) : /\ rows[i].Date_Sample_Collected = pair[1]
                        /\ rows[i].Result_Name = pair[2]}
RECURSIVE TotalOf(_, _)
TotalOf(rows, group) ==
  IF group = {} THEN 0
  ELSE LET i == CHOOSE j \in group : TRUE
       IN rows[i].Result_Value_Numeric + TotalOf(rows, group \ {i})
PointsOf(melted, pair) ==
  {k \in 1..Len(melted) : /\ melted[k].Date_Sample_Collected = pair[1]
                          /\ melted[k].Species = pair[2]}
\* the one point of the pair holds the mean of the pair's records
HoldsMean(rows, melted, pair) ==
  /\ Cardinality(PointsOf(melted, pair)) = 1
  /\ \A k \in PointsOf(melted, pair) :
       /\ melted[k].Cell_Count.num # NA
       /\ melted[k].Cell_Count.den > 0
       /\ melted[k].Cell_Count.num * Cardinality(GroupOf(rows, pair)) =
            TotalOf(rows, GroupOf(rows, pair)) * melted[k].Cell_Count.den

\* what the pivot and the melt do yield: exactly one point for every
\* combination of a date and a species that occur in the input (records with
\* a missing date aside); the point of a (date, species) pair that has input
\* records holds the arithmetic mean of their values, and the point of a
\* combination with no input record holds a missing value.
TrendGridHoldsMeans ==
  (pc = "done" /\ run.charted) =>
    LET rows == run.plot_df.rows
        melted == run.trend_melted
        pairs == PairsOf(rows)
        grid == {p[1] : p \in pairs} \X {p[2] : p \in pairs}
    IN /\ \A pair \in pairs : HoldsMean(rows, melted, pair)
       /\ \A pair \in grid \ pairs :
            /\ Cardinality(PointsOf(melted, pair)) = 1
            /\ \A k \in PointsOf(melted, pair) : melted[k].Cell_Count.num = NA
       /\ Len(melted) = Cardinality(grid)

\* C6: the aggregation output has exactly one point for each (date, species)
\* pair that occurs in the input, holding the arithmetic mean of the pair's
\* records, and no point for a pair with no input record.
C6_OnePointPerPair ==
  (pc = "done" /\ run.charted) =>
    LET rows == run.plot_df.rows
        melted == run.trend_melted
    IN /\ \A pair \in PairsOf(rows) : HoldsMean(rows, melted, pair)
       /\ \A k \in 1..Len(melted) :
            <<melted[k].Date_Sample_Collected, melted[k].Species>> \in PairsOf(rows)

\* ---- C7
SeveralSpeciesAndDates(melted) ==
  /\ Cardinality({melted[k].Species : k \in 1..Len(melted)}) >= 2
  /\ Cardinality({melted[k].Date_Sample_Collected : k \in 1..Len(melted)}) >= 2

\* C7, as amended: the time series is sorted ascending by species name, the
\* points of one species ascending by date.
C7_SortedBySpeciesThenDate ==
  (pc = "done" /\ run.charted) =>
    \A k \in 1..(Len(run.trend_melted) - 1) :
      LET a == run.trend_melted[k]
          b == run.trend_melted[k + 1]
      IN \/ StrLess(a.Species, b.Species)
         \/ /\ a.Species = b.Species
            /\ a.Date_Sample_Collected < b.Date_Sample_Collected

\* C7, as stated: with two or more species and two or more dates, the time
\* series is sorted ascending by date, the points of one date by species name.
C7_AsStated ==
  (pc = "done" /\ run.charted /\ SeveralSpeciesAndDates(run.trend_melted)) =>
    \A k \in 1..(Len(run.trend_melted) - 1) :
      LET a == run.trend_melted[k]
          b == run.trend_melted[k + 1]
      IN \/ a.Date_Sample_Collected < b.Date_Sample_Collected
         \/ /\ a.Date_Sample_Collected = b.Date_Sample_Collected
            /\ StrLess(a.Species, b.Species)

C7_Witness ==
  pc = "done" /\ run.charted /\ SeveralSpeciesAndDates(run.trend_melted)

\* ---- C8
\* C8: over a data set that is not empty the map filter never runs with an
\* empty species set: with nothing selected it uses the default policy's set,
\* the names that contain 'Karenia', else the first name available.
C8_SelectionNeverEmpty ==
  (Passed /\ ~IsEmpty(run.combined_df) /\ NotNa(run.min_date)) =>
    /\ run.species_selected # {}
    /\ run.species_selected \subseteq Range(run.all_species)

\* ---- C9
\* C9: the filter applied to its own result, with the same species and date
\* range, returns that result, for the primary and the community subset; and
\* the observation sets it filtered are still the ones that were loaded.
C9_FilterIdempotent ==
  Passed =>
    /\ FilterFrame(run.sub_df, run.species_selected, run.start_date,
                   run.end_date) = run.sub_df
    /\ run.include_community =>
         FilterFrame(run.comm_sub_df, run.species_selected, run.start_date,
                     run.end_date) = run.comm_sub_df
    /\ run.df = cache_load_data.value
    /\ run.community_df = cache_load_community.value

\* a pass that kept a community record and dropped another
C9_Witness ==
  /\ pc = "filtered"
  /\ run.include_community
  /\ run.comm_sub_df.rows # <<>>
  /\ run.comm_sub_df.rows # run.community_df.rows

\* ---- C10
\* C10: a load answered from the cache returns what a fresh parse of the
\* files, as they are on disk at that moment, returns.
C10_CacheHitIsFresh ==
  (pc # "idle" /\ run.err = "ok") =>
    /\ run.data_hit =>
         /\ load_data(primary_file, coords_file).err = "ok"
         /\ run.df = load_data(primary_file, coords_file).df
    /\ run.community_hit =>
         /\ load_community(community_file).err = "ok"
         /\ run.community_df = load_community(community_file).df

\* ---- C11
\* the records that contribute to a point of the time series: the rows of
\* plot_df that have a date (the pivot drops a missing date)
Contributors ==
  {i \in 1..Len(run.plot_df.rows) :
     NotNa(run.plot_df.rows[i].Date_Sample_Collected)}

\* C11: every record that contributes to a point of the time series has its
\* date within the selected date range [start_date, end_date] and a value
\* that is not missing, as the records of the map subset have.
C11_TrendsUseFilteredRecords ==
  (pc = "done" /\ run.charted) =>
    \A i \in Contributors :
      /\ Between(run.plot_df.rows[i].Date_Sample_Collected,
                 run.start_date, run.end_date)
      /\ NotNa(run.plot_df.rows[i].Result_Value_Numeric)

\* C11, as amended: every record that contributes to a point of the time
\* series is an observation of the trends base (the primary observations,
\* with the community observations when they are included in the map and in
\* the trends) whose species is selected in the trend chart's own selector,
\* whose site is the selected site unless all sites are selected, and whose
\* value is not missing; the date range and the species selection of the map
\* are not applied to it.
C11_TrendsUseBaseRecords ==
  (pc = "done" /\ run.charted) =>
    LET base ==
          BaseTrends(run.df, run.community_df, run.include_comm_in_trends,
                     run.include_community)
    IN \A i \in Contributors :
         LET row == run.plot_df.rows[i]
         IN /\ \E j \in 1..Len(base.rows) : base.rows[j] = row
            /\ row.Result_Name \in run.selected_trend_species
            /\ run.selected_site # "All Sites" =>
                 row.Site_Description = run.selected_site
            /\ NotNa(row.Result_Value_Numeric)

\* a record dated outside the selected date range is charted
C11_Witness ==
  /\ pc = "done" /\ run.charted
  /\ NotNa(run.start_date) /\ NotNa(run.end_date)
  /\ \E i \in Contributors :
       ~Between(run.plot_df.rows[i].Date_Sample_Collected,
                run.start_date, run.end_date)

\* ---- C12
\* a rerun that has shown the species selector: previous_selected is the
\* session's selection before the step, the vocabulary and the default are
\* those of the pass after it
SelectorShown == pc = "idle" /\ pc' \in {"filtered", "failed"} /\ run'.all_species # <<>>

\* C12: on every rerun the default species selection is the previous
\* selection intersected with the current vocabulary when that intersection
\* is not empty (nothing is added to it), and otherwise the 'Karenia'
\* keyword default.
C12_DefaultIsKeptPrevious ==
  [][(SelectorShown /\ pc' = "filtered") =>
       LET previous_selected == session_state.species_selected
           vocabulary == Range(run'.all_species)
           kept == previous_selected \cap vocabulary
       IN run'.default_species =
            IF kept # {} THEN kept ELSE KareniaDefaults(vocabulary)]_vars

\* C12, as amended: on every rerun the default species selection is the
\* previous selection intersected with the current vocabulary, to which
\* 'Karenia spp subcount *' is added when community data is included and
\* that name is in the vocabulary; when this set is empty the default is the
\* 'Karenia' keyword default.
C12_DefaultIsKeptPreviousAndSubcount ==
  [][SelectorShown =>
       LET previous_selected == session_state.species_selected
           vocabulary == Range(run'.all_species)
           kept == previous_selected \cap vocabulary
           ensured ==
             IF run'.include_community /\ KareniaSubcountStar \in vocabulary
             THEN kept \cup {KareniaSubcountStar}
             ELSE kept
       IN run'.default_species =
            IF ensured # {} THEN ensured ELSE KareniaDefaults(vocabulary)]_vars

\* a rerun with community data included whose default holds 'Alex' next to
\* 'Karenia spp subcount *': 'Alex' has no 'Karenia' in it, so it is kept from
\* the previous selection
C12_Witness ==
  /\ pc = "filtered"
  /\ run.include_community
  /\ run.default_species = {Alex, KareniaSubcountStar}

\* ---- C13
\* C13: on every rerun the pair offered to the date input lies within the
\* data's dates, min_date <= start <= end <= max_date, whether it is the
\* clamped previous range or the initial default [max_date - 14 days,
\* max_date].
C13_OfferWithinBounds ==
  (pc # "idle" /\ Len(run.date_offer) = 2 /\ NotNa(run.min_date)) =>
    /\ run.min_date <= run.date_offer[1]
    /\ run.date_offer[1] <= run.date_offer[2]
    /\ run.date_offer[2] <= run.max_date

\* what does hold: the pair clamped from a previous range of two dates lies
\* within the data's dates
ClampedOfferWithinBounds ==
  [][(pc = "idle" /\ pc' # "idle" /\ Len(session_state.date_range) = 2
        /\ Len(run'.date_offer) = 2 /\ NotNa(run'.min_date)) =>
       /\ run'.min_date <= run'.date_offer[1]
       /\ run'.date_offer[1] <= run'.date_offer[2]
       /\ run'.date_offer[2] <= run'.max_date]_vars

====
